---- MODULE Spec2Model ----
(***************************************************************************)
(* A model of preencher_relatorio_gui.py: the placeholder substitution     *)
(* engine (replace_in_paragraph, add_hyperlink), the document tree walker  *)
(* (replace_in_block, replace_in_table, process_document) and the          *)
(* identifier normalisation (normalize_cnpj).                              *)
(*                                                                         *)
(* A text is a sequence of atoms.  The atoms "[" and "]" are the bracket   *)
(* characters; an atom of NameChars stands for characters of the class     *)
(* [A-Z0-9_] (the atom "LINK_DRIVE" stands for the ten characters of that  *)
(* name, which a run boundary therefore cannot split); every other atom    *)
(* is a character outside the class.                                       *)
(***************************************************************************)
EXTENDS Integers, Sequences, FiniteSets, TLC

VARIABLES
    paragraph,   \* the children of the paragraph element, in document order
    template,    \* the paragraph as it was before the call
    mapping,     \* the field mapping handed to replace_in_paragraph
    order,       \* the mapping's keys in iteration order (dict order)
    warning,     \* names printed by the stderr warning; <<>> when none
    path,        \* which branch of replace_in_paragraph ran
    pc,          \* "ready" before the call, "done" after it
    doc,         \* the document handed to process_document
    calls,       \* paragraphs replace_in_paragraph was called on, in order
    wpc,         \* "ready" before process_document, "saved" after doc.save
    cnpj_raw,    \* argument of normalize_cnpj
    cnpj_out,    \* outcome of normalize_cnpj
    tries,       \* consulta_empresa: the attempt counter
    responses,   \* consulta_empresa: what each requests.get call met, in order
    slept,       \* consulta_empresa: the time.sleep calls, in order
    lookup,      \* consulta_empresa: "running", or how it ended and with what
    data,        \* build_mapping: the lookup record it is given
    built,       \* build_mapping: the mapping it returns, or the error it raises
    args,        \* run_cli: the arguments and answers of the user
    cpc,         \* run_cli: the statement the run is at
    locals,      \* run_cli: cnpj_norm, data, mapping, ai, source_text
    log,         \* run_cli: the calls made and the messages printed, in order
    output       \* run_cli: the mapping the output document was written from

vars == <<paragraph, template, mapping, order, warning, path, pc,
          doc, calls, wpc, cnpj_raw, cnpj_out,
          tries, responses, slept, lookup, data, built,
          args, cpc, locals, log, output>>

lookupVars == <<tries, responses, slept, lookup>>

mapVars == <<data, built>>

cliVars == <<args, cpc, locals, log, output>>

restVars == <<lookupVars, mapVars, cliVars>>

paraVars == <<paragraph, template, mapping, order, warning, path, pc>>
walkVars == <<doc, calls, wpc>>
cnpjVars == <<cnpj_raw, cnpj_out>>

nonCliVars == <<paraVars, walkVars, cnpjVars, lookupVars, mapVars>>

(***************************************************************************)
(* Bounds                                                                  *)
(***************************************************************************)
MaxRuns == 2

MaxSections == 3

MaxDigits == 15

MaxPunct == 2

(***************************************************************************)
(* Strings                                                                 *)
(***************************************************************************)
\* characters of the class [A-Z0-9_] of PLACEHOLDER_PATTERN
NameChars == {"A", "B", "Z", "LINK_DRIVE", "LINK_PARA_DOWNLOAD",
              "LINK_DRIVE_TEXT", "LINK_PARA_DOWNLOAD_TEXT"}

\* f'[{key}]'
Token(key) == <<"[", key, "]">>

\* whether old occurs in s at index i
OccursAt(s, old, i) ==
    /\ i >= 1
    /\ i + Len(old) - 1 <= Len(s)
    /\ SubSeq(s, i, i + Len(old) - 1) = old

\* old in s
Contains(s, old) == \E i \in 1..Len(s) : OccursAt(s, old, i)

RECURSIVE ReplaceFrom(_, _, _, _)
ReplaceFrom(s, old, new, i) ==
    IF i > Len(s) THEN <<>>
    ELSE IF OccursAt(s, old, i)
         THEN new \o ReplaceFrom(s, old, new, i + Len(old))
         ELSE <<s[i]>> \o ReplaceFrom(s, old, new, i + 1)

\* str.replace(old, new): every non-overlapping occurrence, left to right
StrReplace(s, old, new) == ReplaceFrom(s, old, new, 1)

RECURSIVE SplitFrom(_, _, _, _)
SplitFrom(s, sep, i, cur) ==
    IF i > Len(s) THEN <<cur>>
    ELSE IF OccursAt(s, sep, i)
         THEN <<cur>> \o SplitFrom(s, sep, i + Len(sep), <<>>)
         ELSE SplitFrom(s, sep, i + 1, Append(cur, s[i]))

\* str.split(sep): k occurrences give k+1 parts, empty parts kept
StrSplit(s, sep) == SplitFrom(s, sep, 1, <<>>)

RECURSIVE NameEnd(_, _)
\* index just after the longest stretch of name characters starting at i
NameEnd(s, i) ==
    IF i <= Len(s) /\ s[i] \in NameChars THEN NameEnd(s, i + 1) ELSE i

RECURSIVE FindAllFrom(_, _)
FindAllFrom(s, i) ==
    IF i > Len(s) THEN <<>>
    ELSE IF s[i] = "["
         THEN LET j == NameEnd(s, i + 1)
              IN  IF j > i + 1 /\ j <= Len(s) /\ s[j] = "]"
                  THEN <<SubSeq(s, i + 1, j - 1)>> \o FindAllFrom(s, j + 1)
                  ELSE FindAllFrom(s, i + 1)
         ELSE FindAllFrom(s, i + 1)

\* PLACEHOLDER_PATTERN.findall(s): the names of the tokens of s, in order
FindAll(s) == FindAllFrom(s, 1)

(***************************************************************************)
(* The paragraph: its children are runs and hyperlink elements             *)
(***************************************************************************)
Unstyled == "none"

\* a w:r child carrying a style (its rPr), opaque to the engine
Run(text, style) == [kind |-> "run", text |-> text, style |-> style, url |-> <<>>]

\* the w:hyperlink element add_hyperlink builds: blue, single underline
Hyperlink(url, text) ==
    [kind |-> "hyperlink", text |-> text, style |-> "0000FF/single", url |-> url]

\* paragraph.runs: the w:r children of the paragraph element
Runs(p) == SelectSeq(p, LAMBDA e : e.kind = "run")

\* the children the run-clearing loops leave in place
NonRuns(p) == SelectSeq(p, LAMBDA e : e.kind # "run")

RECURSIVE Join(_)
Join(texts) == IF texts = <<>> THEN <<>> ELSE Head(texts) \o Join(Tail(texts))

\* "".join([r.text for r in paragraph.runs])
FullText(p) == Join([i \in 1..Len(Runs(p)) |-> Runs(p)[i].text])

\* paragraph._p.append(hyperlink)
add_hyperlink(p, url, text) == Append(p, Hyperlink(url, text))

\* paragraph.add_run(text): a new run without run properties
add_run(p, text) == Append(p, Run(text, Unstyled))

(***************************************************************************)
(* replace_in_paragraph                                                    *)
(***************************************************************************)
LinkKeys == {"LINK_DRIVE", "LINK_DRIVE_TEXT", "LINK_PARA_DOWNLOAD", "LINK_PARA_DOWNLOAD_TEXT"}

PlainKeys == {"A", "B"}

Keys == PlainKeys \cup LinkKeys

DriveFallback == <<"Link Drive">>

DownloadFallback == <<"Link para download">>

\* non_link_keys without its filter: every key of the mapping
NonLinkKeys_Unfiltered(ord) == ord

\* the keys of non_link_keys, in the mapping's iteration order
NonLinkKeys(ord) == SelectSeq(ord, LAMBDA k : k \notin LinkKeys)

RECURSIVE ReplaceKeys(_, _, _)
\* for key, val in non_link_keys.items(): text = text.replace(f'[{key}]', val or "")
ReplaceKeys(text, m, keys) ==
    IF keys = <<>> THEN text
    ELSE ReplaceKeys(StrReplace(text, Token(Head(keys)), m[Head(keys)]), m, Tail(keys))

\* display text of the [LINK_DRIVE] hyperlink
DriveDisplay(m) ==
    IF m["LINK_DRIVE_TEXT"] # <<>> THEN m["LINK_DRIVE_TEXT"] ELSE DriveFallback

\* display text of the [LINK_PARA_DOWNLOAD] hyperlink
DownloadDisplay(m) == DownloadFallback

RECURSIVE EmitParts_LinkAfterLast(_, _, _, _, _, _, _)
\* the loop with its index test off by one: a hyperlink follows the last part too
EmitParts_LinkAfterLast(p, parts, idx, m, keys, url, display) ==
    IF idx > Len(parts) THEN p
    ELSE LET part == ReplaceKeys(parts[idx], m, keys)
             p1 == IF part # <<>> THEN add_run(p, part) ELSE p
             p2 == IF idx <= Len(parts) THEN add_hyperlink(p1, url, display) ELSE p1
         IN  EmitParts_LinkAfterLast(p2, parts, idx + 1, m, keys, url, display)

RECURSIVE EmitParts(_, _, _, _, _, _, _)
\* the loop over enumerate(parts) of the two link branches
EmitParts(p, parts, idx, m, keys, url, display) ==
    IF idx > Len(parts) THEN p
    ELSE LET part == ReplaceKeys(parts[idx], m, keys)
             p1 == IF part # <<>> THEN add_run(p, part) ELSE p
             p2 == IF idx < Len(parts) THEN add_hyperlink(p1, url, display) ELSE p1
         IN  EmitParts(p2, parts, idx + 1, m, keys, url, display)

\* a link branch: split on the token, clear the runs, emit parts and links
LinkRebuild(p, key, m, ord, display) ==
    EmitParts(NonRuns(p), StrSplit(FullText(p), Token(key)), 1, m,
              NonLinkKeys(ord), m[key], display)

\* the guard of a link branch: the token is in full_text and its URL is set
LinkCase(p, key, m) == Contains(FullText(p), Token(key)) /\ m[key] # <<>>

\* the per-run loop: run.text is rewritten, the run and its style stay
PerRun(p, m, ord) ==
    [i \in 1..Len(p) |->
        IF p[i].kind = "run"
        THEN Run(ReplaceKeys(p[i].text, m, NonLinkKeys(ord)), p[i].style)
        ELSE p[i]]

\* the fallback without its replacement loop: the flattened text as it is
SpanRebuild_Unsubstituted(p, m, ord) == add_run(NonRuns(p), FullText(p))

\* the fallback: clear the runs, add one run holding the substituted text
SpanRebuild(p, m, ord) ==
    add_run(NonRuns(p), ReplaceKeys(FullText(p), m, NonLinkKeys(ord)))

\* the function with the warning printed from the text after the rebuild
replace_in_paragraph_WarnsLate(p, m, ord) ==
    IF LinkCase(p, "LINK_DRIVE", m)
    THEN [children |-> LinkRebuild(p, "LINK_DRIVE", m, ord, DriveDisplay(m)),
          warning |-> <<>>, path |-> "link_drive"]
    ELSE IF LinkCase(p, "LINK_PARA_DOWNLOAD", m)
    THEN [children |-> LinkRebuild(p, "LINK_PARA_DOWNLOAD", m, ord, DownloadDisplay(m)),
          warning |-> <<>>, path |-> "link_download"]
    ELSE LET q == PerRun(p, m, ord)
         IN  IF FindAll(FullText(q)) # <<>>
             THEN [children |-> SpanRebuild(q, m, ord),
                   warning |-> FindAll(FullText(SpanRebuild(q, m, ord))),
                   path |-> "rebuild"]
             ELSE [children |-> q, warning |-> <<>>, path |-> "per_run"]

\* the whole function: the paragraph it leaves, the warning it prints, its branch
replace_in_paragraph(p, m, ord) ==
    IF LinkCase(p, "LINK_DRIVE", m)
    THEN [children |-> LinkRebuild(p, "LINK_DRIVE", m, ord, DriveDisplay(m)),
          warning |-> <<>>, path |-> "link_drive"]
    ELSE IF LinkCase(p, "LINK_PARA_DOWNLOAD", m)
    THEN [children |-> LinkRebuild(p, "LINK_PARA_DOWNLOAD", m, ord, DownloadDisplay(m)),
          warning |-> <<>>, path |-> "link_download"]
    ELSE LET q == PerRun(p, m, ord)
             remaining == FindAll(FullText(q))
         IN  IF remaining # <<>>
             THEN [children |-> SpanRebuild(q, m, ord),
                   warning |-> remaining, path |-> "rebuild"]
             ELSE [children |-> q, warning |-> <<>>, path |-> "per_run"]

(***************************************************************************)
(* The paragraphs and mappings replace_in_paragraph is called on           *)
(***************************************************************************)
\* texts of the runs of a template paragraph
RunTexts ==
    { <<"x">>, <<"]">>, <<"[", "A">>,
      Token("A"), Token("B"), Token("Z"),
      Token("LINK_DRIVE"), Token("LINK_PARA_DOWNLOAD"),
      <<"[", "A">> \o Token("B"),
      <<"x">> \o Token("LINK_DRIVE") \o <<"x">> }

\* values of the plain fields
Values == { <<>>, <<"x">>, Token("B") }

\* values of the URL fields
Urls == { <<>>, <<"https://x.test">> }

\* values of the display-text fields
Labels == { <<>>, <<"Drive">> }

\* the run texts of every paragraph of at most MaxRuns runs
RunTextSeqs == UNION { [1..n -> RunTexts] : n \in 0..MaxRuns }

\* a paragraph of runs, run i carrying style i
ParagraphOf(texts) == [i \in 1..Len(texts) |-> Run(texts[i], i)]

Mappings ==
    { [k \in Keys |->
         CASE k = "A" -> a
           [] k = "B" -> b
           [] k = "LINK_DRIVE" -> ud
           [] k = "LINK_PARA_DOWNLOAD" -> up
           [] k = "LINK_DRIVE_TEXT" -> td
           [] k = "LINK_PARA_DOWNLOAD_TEXT" -> tp] :
      a \in Values, b \in Values, ud \in Urls, up \in Urls,
      td \in Labels, tp \in Labels }

\* dict orders: the plain keys either way round, then the link keys
Orders ==
    { <<"A", "B", "LINK_DRIVE", "LINK_DRIVE_TEXT", "LINK_PARA_DOWNLOAD", "LINK_PARA_DOWNLOAD_TEXT">>,
      <<"B", "A", "LINK_DRIVE", "LINK_DRIVE_TEXT", "LINK_PARA_DOWNLOAD", "LINK_PARA_DOWNLOAD_TEXT">> }

IdlePara ==
    /\ paragraph = <<>> /\ template = <<>>
    /\ mapping = [k \in Keys |-> <<>>]
    /\ order = <<>> /\ warning = <<>> /\ path = "none" /\ pc = "idle"

IdleWalk == doc = <<>> /\ calls = <<>> /\ wpc = "idle"

IdleCnpj == cnpj_raw = <<>> /\ cnpj_out = [status |-> "idle", value |-> <<>>]

IdleLookup ==
    /\ tries = 0 /\ responses = <<>> /\ slept = <<>>
    /\ lookup = [status |-> "idle", data |-> [status |-> 0, body |-> "none"]]

IdleMap == data = <<>> /\ built = [status |-> "idle", mapping |-> <<>>]

IdleCli == args = <<>> /\ cpc = "idle" /\ locals = <<>> /\ log = <<>> /\ output = <<>>

IdleRest == IdleLookup /\ IdleMap /\ IdleCli

Init ==
    /\ \E texts \in RunTextSeqs :
          /\ template = ParagraphOf(texts)
          /\ paragraph = ParagraphOf(texts)
    /\ mapping \in Mappings
    /\ order \in Orders
    /\ warning = <<>>
    /\ path = "none"
    /\ pc = "ready"
    /\ IdleWalk
    /\ IdleCnpj
    /\ IdleRest

\* one call replace_in_paragraph(paragraph, mapping)
ReplaceInParagraph ==
    /\ pc = "ready"
    /\ LET r == replace_in_paragraph(paragraph, mapping, order)
       IN  /\ paragraph' = r.children
           /\ warning' = r.warning
           /\ path' = r.path
    /\ pc' = "done"
    /\ UNCHANGED <<template, mapping, order>>
    /\ UNCHANGED walkVars
    /\ UNCHANGED cnpjVars
    /\ UNCHANGED restVars

Next == ReplaceInParagraph

Spec == Init /\ [][Next]_vars

(***************************************************************************)
(* Vocabulary of the properties of replace_in_paragraph                    *)
(***************************************************************************)
LinkTokens == {"LINK_DRIVE", "LINK_PARA_DOWNLOAD"}

Done == pc = "done"

\* the hyperlink children of a paragraph
Links(p) == SelectSeq(p, LAMBDA e : e.kind = "hyperlink")

\* number of places where tok occurs in s
Occurrences(s, tok) == Cardinality({i \in 1..Len(s) : OccursAt(s, tok, i)})

\* the branch that handles a link key
PathOf(key) == IF key = "LINK_DRIVE" THEN "link_drive" ELSE "link_download"

\* a link token is in the text with its URL field set
LinkApplies(s, m, key) == Occurrences(s, Token(key)) >= 1 /\ m[key] # <<>>

\* the link token the call handles: [LINK_DRIVE] has priority
Handled(s, m, key) ==
    /\ LinkApplies(s, m, key)
    /\ key = "LINK_PARA_DOWNLOAD" => ~LinkApplies(s, m, "LINK_DRIVE")

\* the plain keys in iteration order
PlainOrder == SelectSeq(order, LAMBDA k : k \in PlainKeys)

\* no plain value holds a bracket
BracketFreeValues(m) ==
    \A k \in PlainKeys : \A i \in 1..Len(m[k]) : m[k][i] \notin {"[", "]"}

\* between two opening brackets of s there is a closing one
NoNestedBrackets(s) ==
    \A i, j \in 1..Len(s) :
        (i < j /\ s[i] = "[" /\ s[j] = "[") => \E l \in (i+1)..(j-1) : s[l] = "]"

\* some plain key with a non-empty value still has its token in s
PlainTokenLeft(s, m) ==
    \E k \in PlainKeys : m[k] # <<>> /\ Contains(s, Token(k))

\* C1 as stated: after the call the flattened run text holds no token [K] of a
\* plain key K with a non-empty value, whatever the values and the key order.
C1_NoPlainTokenRemains ==
    Done => ~PlainTokenLeft(FullText(paragraph), mapping)

\* C1 (amended): when no plain value holds a bracket and the template text has
\* no bracket nested inside another, the flattened run text after the call holds
\* no token [K] of a plain key K with a non-empty value, on every branch and
\* for every key order.
C1_NoPlainTokenRemains_Flat ==
    (Done /\ BracketFreeValues(mapping) /\ NoNestedBrackets(FullText(template)))
        => ~PlainTokenLeft(FullText(paragraph), mapping)

\* a plain token next to a handled [LINK_DRIVE]: substituted on the link branch
C1_Witness ==
    /\ Done /\ path = "link_drive"
    /\ BracketFreeValues(mapping) /\ NoNestedBrackets(FullText(template))
    /\ mapping["A"] = <<"x">>
    /\ FullText(template) = Token("LINK_DRIVE") \o Token("A")
    /\ FullText(paragraph) = <<"x">>

\* C2 as stated: after the call no link token whose URL field is non-empty is
\* left as literal text in the flattened run text.
C2_NoLinkTokenLiteral ==
    Done => \A key \in LinkTokens :
                mapping[key] # <<>> => ~Contains(FullText(paragraph), Token(key))

RECURSIVE SortedPos(_)
\* the members of a set of indices, ascending
SortedPos(S) ==
    IF S = {} THEN <<>>
    ELSE LET lo == CHOOSE x \in S : \A y \in S : x <= y
         IN  <<lo>> \o SortedPos(S \ {lo})

\* the stretches of s before, between and after the occurrences of tok
Segments(s, tok) ==
    LET pos == SortedPos({i \in 1..Len(s) : OccursAt(s, tok, i)})
        k == Len(pos)
    IN  [j \in 1..(k + 1) |->
            SubSeq(s, IF j = 1 THEN 1 ELSE pos[j - 1] + Len(tok),
                      IF j = k + 1 THEN Len(s) ELSE pos[j] - 1)]

\* what a child is: a run with its text, or a link with its target
Shape(p) ==
    [i \in 1..Len(p) |->
        IF p[i].kind = "run" THEN <<"run", p[i].text>> ELSE <<"link", p[i].url>>]

RECURSIVE Interleave(_, _, _)
\* segment j, a link, segment j+1, a link, ..., the last segment; empty ones left out
Interleave(segs, j, url) ==
    IF j > Len(segs) THEN <<>>
    ELSE (IF segs[j] # <<>> THEN << <<"run", segs[j]>> >> ELSE <<>>)
         \o (IF j < Len(segs) THEN << <<"link", url>> >> ELSE <<>>)
         \o Interleave(segs, j + 1, url)

\* the segments of s around tok, each with its plain tokens substituted
SubstitutedSegments(s, tok) ==
    LET segs == Segments(s, tok)
    IN  [j \in 1..Len(segs) |-> ReplaceKeys(segs[j], mapping, PlainOrder)]

\* C3: when the handled link token occurs k >= 1 times and its URL is set, the
\* call leaves exactly k hyperlinks, each targeting the URL, and the children
\* are segment0, link, segment1, ..., segmentk in order, empty segments omitted.
C3_LinksBetweenSegments ==
    Done => \A key \in LinkTokens :
        Handled(FullText(template), mapping, key) =>
            /\ Len(Links(paragraph)) = Occurrences(FullText(template), Token(key))
            /\ \A i \in 1..Len(paragraph) :
                   paragraph[i].kind = "hyperlink" => paragraph[i].url = mapping[key]
            /\ Shape(paragraph) =
                   Interleave(SubstitutedSegments(FullText(template), Token(key)),
                              1, mapping[key])

\* "See [LINK_DRIVE] here": a run, one hyperlink, a run
C3_Witness ==
    /\ Done
    /\ Handled(FullText(template), mapping, "LINK_DRIVE")
    /\ FullText(template) = <<"x">> \o Token("LINK_DRIVE") \o <<"x">>
    /\ Shape(paragraph) =
          << <<"run", <<"x">> >>, <<"link", mapping["LINK_DRIVE"]>>, <<"run", <<"x">> >> >>

\* the display-text field of a link key
TextField(key) ==
    IF key = "LINK_DRIVE" THEN "LINK_DRIVE_TEXT" ELSE "LINK_PARA_DOWNLOAD_TEXT"

\* the fallback label of a link key
Fallback(key) == IF key = "LINK_DRIVE" THEN DriveFallback ELSE DownloadFallback

\* C4 as stated: every hyperlink the call inserts for a link token shows that
\* token's display-text field when the field is non-empty and the token's
\* fallback label only when the field is empty.
C4_DisplayIsField ==
    Done => \A key \in LinkTokens :
        path = PathOf(key) =>
            \A i \in 1..Len(paragraph) :
                paragraph[i].kind = "hyperlink" =>
                    paragraph[i].text =
                        (IF mapping[TextField(key)] # <<>>
                         THEN mapping[TextField(key)] ELSE Fallback(key))

\* every token of the grammar in the paragraph lies inside one run
NoTokenSpansRuns(p) ==
    FindAll(FullText(p)) = Join([i \in 1..Len(Runs(p)) |-> FindAll(Runs(p)[i].text)])

\* C5 as stated: when no link case applies and no token spans a run boundary,
\* no rebuild is triggered and the runs keep their number, order and styles.
C5_RunsPreserved ==
    (/\ Done
     /\ \A key \in LinkTokens : ~LinkApplies(FullText(template), mapping, key)
     /\ NoTokenSpansRuns(template))
        => /\ path = "per_run"
           /\ warning = <<>>
           /\ Len(paragraph) = Len(template)
           /\ \A i \in 1..Len(template) :
                  paragraph[i].kind = "run" /\ paragraph[i].style = template[i].style

\* the run texts after the per-run loop, computed run by run from the template
PerRunTexts ==
    [i \in 1..Len(template) |-> ReplaceKeys(template[i].text, mapping, PlainOrder)]

\* after the per-run loop the token of plain key k lies across a run boundary
SplitAcrossRuns(k) ==
    /\ \A key \in LinkTokens : ~LinkApplies(FullText(template), mapping, key)
    /\ Contains(Join(PerRunTexts), Token(k))
    /\ \A i \in 1..Len(PerRunTexts) : ~Contains(PerRunTexts[i], Token(k))

\* the names a sequence of names holds
Named(names) == {names[i] : i \in 1..Len(names)}

\* C6: when, after the per-run loop, the token of a mapping key K is split across
\* runs, the call returns with exactly one unstyled run holding the flattened
\* text with the plain tokens substituted, and the warning names every token
\* present before the rebuild, K among them.
C6_SpanningFallback ==
    Done => \A k \in PlainKeys :
        SplitAcrossRuns(k) =>
            /\ paragraph =
                   <<Run(ReplaceKeys(Join(PerRunTexts), mapping, PlainOrder), Unstyled)>>
            /\ warning = FindAll(Join(PerRunTexts))
            /\ <<k>> \in Named(warning)

\* "[A" + "]" with A set: one unstyled run with the value, and a warning naming A
C6_Witness ==
    /\ Done
    /\ SplitAcrossRuns("A")
    /\ Len(template) = 2
    /\ mapping["A"] = <<"x">>
    /\ paragraph = <<Run(<<"x">>, Unstyled)>>
    /\ warning = << <<"A">> >>

RECURSIVE SimultaneousFrom(_, _, _)
\* one pass over s: each token of a plain key gives way to its value, and the
\* inserted value is not looked at again
SimultaneousFrom(s, m, i) ==
    IF i > Len(s) THEN <<>>
    ELSE IF \E k \in PlainKeys : OccursAt(s, Token(k), i)
         THEN LET k == CHOOSE k \in PlainKeys : OccursAt(s, Token(k), i)
              IN  m[k] \o SimultaneousFrom(s, m, i + Len(Token(k)))
         ELSE <<s[i]>> \o SimultaneousFrom(s, m, i + 1)

Simultaneous(s, m) == SimultaneousFrom(s, m, 1)

\* C8 as stated: the result is a single simultaneous substitution of the tokens
\* of the original text; an inserted value is never substituted again.
C8_NotRecursive ==
    Done =>
        IF \E key \in LinkTokens : Handled(FullText(template), mapping, key)
        THEN \A key \in LinkTokens :
                 Handled(FullText(template), mapping, key) =>
                     LET segs == Segments(FullText(template), Token(key))
                     IN  FullText(paragraph) =
                             Join([j \in 1..Len(segs) |-> Simultaneous(segs[j], mapping)])
        ELSE FullText(paragraph) = Simultaneous(FullText(template), mapping)

(***************************************************************************)
(* The document tree walker                                                *)
(***************************************************************************)
\* a block-item container (document body, table cell, header, footer)
Block(paragraphs, tables) == [paragraphs |-> paragraphs, tables |-> tables]

RECURSIVE replace_in_block(_), replace_in_table(_), CellsOf(_), RowsOf(_), TablesOf(_)

\* for cell in row.cells: replace_in_block(cell, mapping)
CellsOf(cells) ==
    IF cells = <<>> THEN <<>>
    ELSE replace_in_block(Head(cells)) \o CellsOf(Tail(cells))

\* for row in table.rows
RowsOf(rows) ==
    IF rows = <<>> THEN <<>> ELSE CellsOf(Head(rows)) \o RowsOf(Tail(rows))

\* the calls of replace_in_paragraph made for a table, in order
replace_in_table(table) == RowsOf(table)

\* for table in getattr(block, "tables", [])
TablesOf(tables) ==
    IF tables = <<>> THEN <<>>
    ELSE replace_in_table(Head(tables)) \o TablesOf(Tail(tables))

\* the calls of replace_in_paragraph made for a block: its paragraphs, then its tables
replace_in_block(block) == block.paragraphs \o TablesOf(block.tables)

RECURSIVE SectionsOf(_)
\* for section in doc.sections: its header, then its footer
SectionsOf(sections) ==
    IF sections = <<>> THEN <<>>
    ELSE replace_in_block(Head(sections).header)
         \o replace_in_block(Head(sections).footer)
         \o SectionsOf(Tail(sections))

\* the calls of replace_in_paragraph made by process_document, in order
process_document(d) == replace_in_block(d.body) \o SectionsOf(d.sections)

\* cells of the template tables: plain, and holding a nested table
PlainCell == Block(<< <<"cell", 1>> >>, <<>>)

InnerCell == Block(<< <<"cell", 3>> >>, <<>>)

NestingCell == Block(<< <<"cell", 2>> >>, << << <<InnerCell>> >> >>)

\* row.cells of the one row: a merged cell is listed once per grid column it spans
RowCells ==
    { <<PlainCell>>, <<NestingCell>>, <<PlainCell, NestingCell>>, <<PlainCell, PlainCell>> }

Bodies ==
    { Block(<< <<"body", 1>> >>, <<>>) }
    \cup { Block(<< <<"body", 1>> >>, << <<cells>> >>) : cells \in RowCells }

\* which section defines the header (footer) each section shows: its own, or,
\* linked to the previous section, the one the previous section shows
Definers(n) ==
    { f \in [1..n -> 1..n] :
        /\ f[1] = 1
        /\ \A i \in 2..n : f[i] = i \/ f[i] = f[i - 1] }

\* doc.sections: each section with the header and the footer it shows
SectionLists ==
    UNION { { [i \in 1..n |->
                 [header |-> Block(<< <<"header", hd[i]>> >>, <<>>),
                  footer |-> Block(<< <<"footer", ft[i]>> >>, <<>>)]] :
              hd \in Definers(n), ft \in Definers(n) } :
            n \in 1..MaxSections }

Documents == { [body |-> b, sections |-> ss] : b \in Bodies, ss \in SectionLists }

InitWalk ==
    /\ doc \in Documents
    /\ calls = <<>>
    /\ wpc = "ready"
    /\ IdlePara
    /\ IdleCnpj
    /\ IdleRest

\* one call process_document(template_path, output_path, mapping)
ProcessDocument ==
    /\ wpc = "ready"
    /\ calls' = process_document(doc)
    /\ wpc' = "saved"
    /\ UNCHANGED doc
    /\ UNCHANGED paraVars
    /\ UNCHANGED cnpjVars
    /\ UNCHANGED restVars

NextWalk == ProcessDocument

SpecWalk == InitWalk /\ [][NextWalk]_vars

RECURSIVE ParagraphsIn(_), ParagraphsInCells(_)
\* the paragraphs reachable from a block, through tables at any depth
ParagraphsIn(block) ==
    {block.paragraphs[i] : i \in 1..Len(block.paragraphs)}
    \cup UNION { UNION { ParagraphsInCells(block.tables[t][r]) :
                          r \in 1..Len(block.tables[t]) } :
                 t \in 1..Len(block.tables) }

ParagraphsInCells(cells) == UNION { ParagraphsIn(cells[c]) : c \in 1..Len(cells) }

\* every paragraph reachable from the document
Reachable(d) ==
    ParagraphsIn(d.body)
    \cup UNION { ParagraphsIn(d.sections[i].header) \cup ParagraphsIn(d.sections[i].footer) :
                 i \in 1..Len(d.sections) }

\* how often replace_in_paragraph was called on paragraph q
CallsOn(q) == Cardinality({i \in 1..Len(calls) : calls[i] = q})

\* C9 as stated: one process_document call applies replace_in_paragraph exactly
\* once to every paragraph reachable from the document, shared headers and
\* footers and repeated cells included.
C9_EachParagraphOnce ==
    wpc = "saved" => \A q \in Reachable(doc) : CallsOn(q) = 1

(***************************************************************************)
(* normalize_cnpj                                                          *)
(***************************************************************************)
\* the characters \D does not match
Digits == {"0", "1", "2", "3", "4", "5", "6", "7", "8", "9"}

\* the number of digits a CNPJ must hold
CnpjLength == 14

RECURSIVE StripNonDigits(_)
\* re.sub(r'\D', '', s)
StripNonDigits(s) ==
    IF s = <<>> THEN <<>>
    ELSE IF Head(s) \in Digits
         THEN <<Head(s)>> \o StripNonDigits(Tail(s))
         ELSE StripNonDigits(Tail(s))

\* the length test refusing only identifiers that are too short
normalize_cnpj_AtLeast(raw) ==
    LET digits == StripNonDigits(IF raw.none THEN <<>> ELSE raw.text)
    IN  IF Len(digits) < CnpjLength
        THEN [status |-> "ValueError", value |-> <<>>]
        ELSE [status |-> "returned", value |-> digits]

\* the outcome of normalize_cnpj: the digits, or the ValueError it raises
normalize_cnpj(raw) ==
    LET digits == StripNonDigits(IF raw.none THEN <<>> ELSE raw.text)
    IN  IF Len(digits) # CnpjLength
        THEN [status |-> "ValueError", value |-> <<>>]
        ELSE [status |-> "returned", value |-> digits]

\* characters that are no digits
NonDigits == {".", "/", "-", "a"}

DigitOf(n) == CHOOSE d \in Digits : d = ToString(n % 10)

RECURSIVE Interleaved(_, _, _, _, _)
\* digits i+1..n, counted up from `first`, with character c put before digit
\* position q+1 for every q of `at`
Interleaved(i, n, first, at, c) ==
    (IF i \in at THEN <<c>> ELSE <<>>)
    \o (IF i >= n THEN <<>>
        ELSE <<DigitOf(first + i)>> \o Interleaved(i + 1, n, first, at, c))

\* identifiers as typed: up to MaxDigits digits and up to MaxPunct other characters
RawTexts ==
    UNION { { Interleaved(0, n, first, at, c) :
                first \in {0, 7}, c \in NonDigits,
                at \in {a \in SUBSET (0..n) : Cardinality(a) <= MaxPunct} } :
            n \in 0..MaxDigits }

RawInputs ==
    { [none |-> TRUE, text |-> <<>>] } \cup { [none |-> FALSE, text |-> t] : t \in RawTexts }

InitCnpj ==
    /\ cnpj_raw \in RawInputs
    /\ cnpj_out = [status |-> "pending", value |-> <<>>]
    /\ IdlePara
    /\ IdleWalk
    /\ IdleRest

\* one call normalize_cnpj(cnpj_raw)
NormalizeCnpj ==
    /\ cnpj_out.status = "pending"
    /\ cnpj_out' = normalize_cnpj(cnpj_raw)
    /\ UNCHANGED cnpj_raw
    /\ UNCHANGED paraVars
    /\ UNCHANGED walkVars
    /\ UNCHANGED restVars

NextCnpj == NormalizeCnpj

SpecCnpj == InitCnpj /\ [][NextCnpj]_vars

\* the digit characters of a text, in order
DigitSubsequence(t) == SelectSeq(t, LAMBDA ch : ch \in Digits)

\* the text normalize_cnpj was given; a null argument holds no character
GivenText == IF cnpj_raw.none THEN <<>> ELSE cnpj_raw.text

\* C10: normalize_cnpj returns the digits of its input, in order, when there are
\* exactly 14 of them, and raises an invalid-input error, returning nothing,
\* when there are not (empty and null input included).
C10_NormalizeCnpj ==
    cnpj_out.status # "pending" =>
        IF Cardinality({i \in 1..Len(GivenText) : GivenText[i] \in Digits}) = 14
        THEN cnpj_out = [status |-> "returned", value |-> DigitSubsequence(GivenText)]
        ELSE cnpj_out = [status |-> "ValueError", value |-> <<>>]

\* "12.345.678/0001-95"-like input: 14 digits with punctuation between them
C10_Witness ==
    /\ cnpj_out.status = "returned"
    /\ Len(cnpj_out.value) = 14
    /\ Len(cnpj_raw.text) = 16
    /\ cnpj_raw.text[3] = "." /\ cnpj_raw.text[12] = "."

(***************************************************************************)
(* consulta_empresa                                                        *)
(***************************************************************************)
\* the attempts the while loop allows
MaxTries == 3

\* the status codes the loop sleeps on and retries
TransientStatuses == {429, 500, 502, 503, 504}

\* status codes of the responses: 200, a client error, the transient ones
Statuses == {200, 404} \cup TransientStatuses

\* what resp.json() meets: a record, a payload with status "ERROR", no JSON at all
Payloads == {"record", "error", "invalid"}

\* requests.get raised a requests.RequestException (connection, timeout)
NetworkFailure == [status |-> 0, body |-> "exception"]

NoResponse == [status |-> 0, body |-> "none"]

\* what one requests.get call can meet
Responses == {NetworkFailure} \cup {[status |-> st, body |-> b] : st \in Statuses, b \in Payloads}

\* the try block raises a requests.RequestException: requests.get itself, the
\* HTTPError of resp.raise_for_status() (status 400 and above), or the
\* JSONDecodeError of resp.json(), which requests derives from RequestException
RaisesRequestException(resp) ==
    \/ resp = NetworkFailure
    \/ /\ resp.status # 200
       /\ resp.status \notin TransientStatuses
       /\ resp.status >= 400
    \/ /\ resp.status \notin TransientStatuses
       /\ resp.status < 400
       /\ resp.body = "invalid"

\* the while condition with one attempt more than the budget
MayTry_OneMore(n) == n <= MaxTries

\* while tries < 3
MayTry(n) == n < MaxTries

\* one pass of the loop body on attempt n (tries after tries += 1) meeting resp,
\* run up to the next requests.get or to the end of the function
Attempt(n, resp) ==
    IF resp # NetworkFailure /\ resp.status # 200 /\ resp.status \in TransientStatuses
    THEN \* time.sleep(1 + tries); continue
         IF MayTry(n)
         THEN [status |-> "running", data |-> NoResponse, sleep |-> <<1 + n>>]
         ELSE [status |-> "RuntimeError", data |-> NoResponse, sleep |-> <<1 + n>>]
    ELSE IF RaisesRequestException(resp)
    THEN \* except requests.RequestException
         IF n >= MaxTries
         THEN [status |-> "RuntimeError", data |-> NoResponse, sleep |-> <<>>]
         ELSE IF MayTry(n)
              THEN [status |-> "running", data |-> NoResponse, sleep |-> <<1 + n>>]
              ELSE [status |-> "RuntimeError", data |-> NoResponse, sleep |-> <<1 + n>>]
    ELSE IF resp.body = "error"
    THEN \* raise RuntimeError(f"ReceitaWS retornou erro: ...")
         [status |-> "RuntimeError", data |-> NoResponse, sleep |-> <<>>]
    ELSE [status |-> "returned", data |-> resp, sleep |-> <<>>]

InitLookup ==
    /\ tries = 0
    /\ responses = <<>>
    /\ slept = <<>>
    /\ lookup = [status |-> "running", data |-> NoResponse]
    /\ IdlePara
    /\ IdleWalk
    /\ IdleCnpj
    /\ IdleMap
    /\ IdleCli

\* one attempt of consulta_empresa: tries += 1, requests.get, what follows it
Request ==
    /\ lookup.status = "running"
    /\ MayTry(tries)
    /\ \E resp \in Responses :
          LET r == Attempt(tries + 1, resp)
          IN  /\ tries' = tries + 1
              /\ responses' = Append(responses, resp)
              /\ slept' = slept \o r.sleep
              /\ lookup' = [status |-> r.status, data |-> r.data]
    /\ UNCHANGED paraVars
    /\ UNCHANGED walkVars
    /\ UNCHANGED cnpjVars
    /\ UNCHANGED mapVars
    /\ UNCHANGED cliVars

NextLookup == Request

\* the loop runs on: nothing in it waits without a bound (timeout=REQUEST_TIMEOUT)
SpecLookup == InitLookup /\ [][NextLookup]_vars /\ WF_vars(NextLookup)

\* consulta_empresa has ended
LookupEnded == lookup.status \in {"returned", "RuntimeError"}

\* a response that carries a record: status 200 and a payload without an error
Successful(resp) == resp.status = 200 /\ resp.body = "record"

\* the response of the latest attempt
LastResponse == responses[Len(responses)]

\* C11: whatever the server answers, consulta_empresa issues at most 3 requests
\* and then ends: it returns the record of a successful response or raises a
\* lookup error, never asks a fourth time, never returns after a failed last try.
C11_AtMostThreeRequests ==
    /\ [](/\ Len(responses) <= 3
          /\ tries = Len(responses)
          /\ (lookup.status = "running" => Len(responses) < 3)
          /\ (lookup.status = "returned" =>
                 /\ Len(responses) >= 1
                 /\ Successful(LastResponse)
                 /\ lookup.data = LastResponse)
          /\ (lookup.status = "RuntimeError" =>
                 /\ Len(responses) >= 1
                 /\ ~Successful(LastResponse)
                 /\ lookup.data = NoResponse))
    /\ <>LookupEnded

\* two transient failures, then the record on the third and last attempt
C11_Witness ==
    /\ Len(responses) = 3
    /\ responses[1].status = 503
    /\ responses[2] = NetworkFailure
    /\ Successful(responses[3])
    /\ lookup.status = "returned"
    /\ slept = <<2, 3>>

\* three transient failures: a lookup error after the third request
C11_WitnessExhausted ==
    /\ Len(responses) = 3
    /\ \A i \in 1..3 : responses[i].status = 429
    /\ lookup.status = "RuntimeError"

\* a failure the spec counts as transient: one of the five statuses, or no answer
TransientFailure(resp) ==
    resp = NetworkFailure \/ resp.status \in {429, 500, 502, 503, 504}

\* a failure that is to end the lookup: another non-200 status, or a 200
\* response whose payload reports an error
FinalFailure(resp) ==
    /\ resp # NetworkFailure
    /\ \/ resp.status # 200 /\ resp.status \notin {429, 500, 502, 503, 504}
       \/ resp.status = 200 /\ resp.body = "error"

\* C15 as stated: a further request follows only a transient failure; any other
\* non-200 status, and a 200 response reporting ERROR, end the lookup with a
\* lookup error at once.
C15_RetryOnlyAfterTransient ==
    \A i \in 1..Len(responses) :
        /\ i < Len(responses) => TransientFailure(responses[i])
        /\ FinalFailure(responses[i]) =>
               i = Len(responses) /\ lookup.status = "RuntimeError"

(***************************************************************************)
(* build_mapping                                                           *)
(*                                                                         *)
(* A value of the lookup record is a pair of a type and a content: None, a *)
(* string (a sequence of characters), a number, a list of values, a dict   *)
(* (its content is the value under "text", or nothing when it has no such  *)
(* key).  A key the record lacks holds Absent.                             *)
(***************************************************************************)
Absent == [t |-> "absent", v |-> <<>>]

None == [t |-> "none", v |-> <<>>]

Str(chars) == [t |-> "str", v |-> chars]

Num(n) == [t |-> "num", v |-> <<n>>]

List(items) == [t |-> "list", v |-> items]

Dict(text) == [t |-> "dict", v |-> <<text>>]

DictWithoutText == [t |-> "dict", v |-> <<>>]

\* dict.get(key): None for a key the dict lacks
Get(d, key) == IF d[key].t = "absent" THEN None ELSE d[key]

\* bool(x)
Truthy(x) ==
    CASE x.t = "none" -> FALSE
      [] x.t = "num" -> x.v[1] # 0
      [] OTHER -> x.v # <<>>

\* str(x)
PyStr(x) ==
    CASE x.t = "str" -> x
      [] x.t = "none" -> Str(<<"None">>)
      [] x.t = "num" -> Str(<<ToString(x.v[1])>>)
      [] x.t = "list" -> Str(<<"[", "...", "]">>)
      [] OTHER -> Str(<<"{", "...", "}">>)

\* the characters str.strip() removes
Whitespace == {" ", "\n"}

RECURSIVE LStrip(_)
LStrip(chars) ==
    IF chars # <<>> /\ Head(chars) \in Whitespace THEN LStrip(Tail(chars)) ELSE chars

RECURSIVE RStrip(_)
RStrip(chars) ==
    IF chars # <<>> /\ chars[Len(chars)] \in Whitespace
    THEN RStrip(SubSeq(chars, 1, Len(chars) - 1)) ELSE chars

\* str.strip()
Strip(chars) == RStrip(LStrip(chars))

\* safe_get(key): "" for a missing or None value, a stripped string, str(v)
safe_get(d, key) ==
    LET v == Get(d, key)
    IN  IF v.t = "none" THEN Str(<<>>)
        ELSE IF v.t = "str" THEN Str(Strip(v.v))
        ELSE PyStr(v)

\* data["atividade_principal"][0].get("text", ""); with the except clause:
\* str(data.get("atividade_principal")) when the subscript or the .get raises
FirstText(raw) ==
    IF raw.t = "list" /\ raw.v # <<>> /\ raw.v[1].t = "dict"
    THEN IF raw.v[1].v = <<>> THEN Str(<<>>) ELSE raw.v[1].v[1]
    ELSE PyStr(raw)

\* the atividade_principal local of build_mapping
AtividadePrincipal(d) ==
    IF Truthy(Get(d, "atividade_principal"))
    THEN FirstText(Get(d, "atividade_principal"))
    ELSE Str(<<>>)

\* filter(None, parts)
FilterTruthy(parts) == SelectSeq(parts, Truthy)

RECURSIVE JoinChars(_, _)
JoinChars(sep, parts) ==
    IF parts = <<>> THEN <<>>
    ELSE IF Len(parts) = 1 THEN parts[1].v
    ELSE parts[1].v \o sep \o JoinChars(sep, Tail(parts))

\* sep.join(parts) raises TypeError on an item that is no string
JoinRaises(parts) == \E i \in 1..Len(parts) : parts[i].t # "str"

\* the keys of the mapping build_mapping returns
SchemaKeys ==
    {"NOME_EMPRESA_CLIENTE", "FANTASIA", "RESUMO_EMPRESA_CLIENTE", "CNPJ", "ENDERECO",
     "ATIVIDADE_PRINCIPAL", "TELEFONE", "EMAIL", "ABERTURA", "SITUACAO",
     "OBJETIVO_EMPRESA", "LINK_DRIVE", "LINK_DRIVE_TEXT", "LINK_PARA_DOWNLOAD",
     "LINK_PARA_DOWNLOAD_TEXT", "DATA_BACKUP", "DATA_KICKOFF", "DATA_ENTREGA",
     "DOMINIO", "DEMANDA", "DOMINIOWP", "ESPECIALISTARESPONSAVEL"}

\* the constituents of resumo, after filter(None, ...)
ResumoParts(d) ==
    FilterTruthy(<<AtividadePrincipal(d), safe_get(d, "porte"), safe_get(d, "situacao")>>)

\* the constituents of endereco, after filter(None, ...)
EnderecoParts(d) ==
    FilterTruthy(<<safe_get(d, "logradouro"), safe_get(d, "numero"), safe_get(d, "bairro"),
                   safe_get(d, "municipio"), safe_get(d, "uf"), safe_get(d, "cep")>>)

\* the mapping literal of build_mapping
MappingOf(d) ==
    [k \in SchemaKeys |->
        CASE k = "NOME_EMPRESA_CLIENTE" -> safe_get(d, "nome")
          [] k = "FANTASIA" -> safe_get(d, "fantasia")
          [] k = "RESUMO_EMPRESA_CLIENTE" -> Str(JoinChars(<<" | ">>, ResumoParts(d)))
          [] k = "CNPJ" -> safe_get(d, "cnpj")
          [] k = "ENDERECO" -> Str(JoinChars(<<" - ">>, EnderecoParts(d)))
          [] k = "ATIVIDADE_PRINCIPAL" -> AtividadePrincipal(d)
          [] k = "TELEFONE" -> safe_get(d, "telefone")
          [] k = "EMAIL" -> safe_get(d, "email")
          [] k = "ABERTURA" -> safe_get(d, "abertura")
          [] k = "SITUACAO" -> safe_get(d, "situacao")
          [] k = "ESPECIALISTARESPONSAVEL" -> Str(<<"ITALO GOMES">>)
          [] OTHER -> Str(<<>>)]

\* the outcome of build_mapping: the mapping, or the TypeError of a join
build_mapping(d) ==
    IF JoinRaises(ResumoParts(d)) \/ JoinRaises(EnderecoParts(d))
    THEN [status |-> "TypeError", mapping |-> <<>>]
    ELSE [status |-> "returned", mapping |-> MappingOf(d)]

\* the keys build_mapping reads from the lookup record
SourceKeys ==
    {"nome", "fantasia", "cnpj", "telefone", "email", "abertura", "situacao", "porte",
     "logradouro", "numero", "bairro", "municipio", "uf", "cep", "atividade_principal"}

\* values of a scalar field: missing, null, strings, a number
Scalars == {Absent, None, Str(<<>>), Str(<<" ", "a", " ">>), Num(7)}

\* fewer values for the fields that only feed a join
JoinScalars == {None, Str(<<"b">>), Num(7)}

\* values under the primary-activity key: missing, null, empty and non-empty
\* strings, numbers, a dict, lists whose first item is a dict (its text a
\* string, missing, null, a number, a list) or is no dict
Activities ==
    {Absent, None, Str(<<>>), Str(<<"a">>), Num(0), Num(7), Dict(Str(<<"a">>)),
     List(<<>>),
     List(<<Dict(Str(<<"A", " ">>))>>),
     List(<<Dict(Str(<<>>))>>),
     List(<<DictWithoutText>>),
     List(<<Dict(None)>>),
     List(<<Dict(Num(0))>>),
     List(<<Dict(Num(7))>>),
     List(<<Dict(List(<<>>))>>),
     List(<<None>>),
     List(<<Str(<<"a">>), Dict(Str(<<"A">>))>>)}

\* a lookup record: some fields vary alone, the others vary together
RecordOf(act, nome, first, second, third, other) ==
    [k \in SourceKeys |->
        CASE k = "atividade_principal" -> act
          [] k = "nome" -> nome
          [] k \in {"porte", "logradouro"} -> first
          [] k \in {"situacao", "numero"} -> second
          [] k \in {"bairro", "municipio"} -> third
          [] OTHER -> other]

Records ==
    { RecordOf(act, nome, first, second, third, other) :
        act \in Activities, nome \in Scalars, first \in JoinScalars,
        second \in JoinScalars, third \in JoinScalars, other \in Scalars }

InitMapping ==
    /\ data \in Records
    /\ built = [status |-> "pending", mapping |-> <<>>]
    /\ IdlePara
    /\ IdleWalk
    /\ IdleCnpj
    /\ IdleLookup
    /\ IdleCli

BuildMapping ==
    /\ built.status = "pending"
    /\ built' = build_mapping(data)
    /\ UNCHANGED data
    /\ UNCHANGED paraVars
    /\ UNCHANGED walkVars
    /\ UNCHANGED cnpjVars
    /\ UNCHANGED lookupVars
    /\ UNCHANGED cliVars

NextMapping == BuildMapping

SpecMapping == InitMapping /\ [][NextMapping]_vars

\* C13 as stated: for every lookup record build_mapping returns without
\* raising, the mapping it returns has exactly the schema's keys, every value
\* is a string, and a field whose source is missing or null is the empty
\* string.
C13_MappingOfStrings ==
    built.status # "pending" =>
        /\ built.status = "returned"
        /\ DOMAIN built.mapping = SchemaKeys
        /\ \A k \in SchemaKeys : built.mapping[k].t = "str"
        /\ Get(data, "nome").t = "none" => built.mapping["NOME_EMPRESA_CLIENTE"] = Str(<<>>)
        /\ Get(data, "atividade_principal").t = "none" =>
               built.mapping["ATIVIDADE_PRINCIPAL"] = Str(<<>>)

\* what does hold: build_mapping raises nothing but the TypeError of the join,
\* and every field other than ATIVIDADE_PRINCIPAL of a returned mapping is a
\* string
C13_AllButActivity ==
    built.status # "pending" =>
        /\ built.status \in {"returned", "TypeError"}
        /\ built.status = "returned" =>
               /\ DOMAIN built.mapping = SchemaKeys
               /\ \A k \in SchemaKeys \ {"ATIVIDADE_PRINCIPAL"} : built.mapping[k].t = "str"

\* a mapping is returned whose ATIVIDADE_PRINCIPAL is None
C13_NullActivity ==
    ~(built.status = "returned" /\ built.mapping["ATIVIDADE_PRINCIPAL"].t = "none")

\* build_mapping raises
C13_Raises == built.status # "TypeError"

(***************************************************************************)
(* run_cli                                                                 *)
(***************************************************************************)
RECURSIVE ConsultaFrom(_, _)
\* the loop of consulta_empresa from its n-th request on, the server
\* answering resps[n] to the n-th request
ConsultaFrom(n, resps) ==
    LET r == Attempt(n, resps[n])
    IN  IF r.status = "running" /\ n < Len(resps) THEN ConsultaFrom(n + 1, resps) ELSE r

\* the outcome of consulta_empresa
consulta_empresa(resps) == ConsultaFrom(1, resps)

\* str.lower(), character by character
Lower(chars) == [i \in 1..Len(chars) |-> IF chars[i] = "A" THEN "a" ELSE chars[i]]

RECURSIVE BeforeFirst(_, _)
\* s.split(sep)[0]
BeforeFirst(chars, sep) ==
    IF chars = <<>> \/ Head(chars) = sep THEN <<>>
    ELSE <<Head(chars)>> \o BeforeFirst(Tail(chars), sep)

\* MockProvider.generate_objective(source_text, context): the sentence, or
\* the AttributeError of .strip() on a value that is no string
generate_objective(source_text, context) ==
    IF context["NOME_EMPRESA_CLIENTE"].t # "str" \/ context["ATIVIDADE_PRINCIPAL"].t # "str"
    THEN [status |-> "AttributeError", text |-> <<>>]
    ELSE LET nome == Strip(context["NOME_EMPRESA_CLIENTE"].v)
             atividade == Strip(context["ATIVIDADE_PRINCIPAL"].v)
             first_sent == Strip(BeforeFirst(source_text, "."))
         IN  IF atividade # <<>>
             THEN [status |-> "returned",
                   text |-> <<"O objetivo da ">> \o nome \o <<" é atuar em ">>
                            \o Lower(atividade) \o <<", oferecendo soluções">>]
             ELSE IF source_text # <<>> /\ first_sent # <<>>
             THEN [status |-> "returned",
                   text |-> <<"O objetivo da ">> \o nome \o <<" é ">> \o first_sent \o <<".">>]
             ELSE [status |-> "returned",
                   text |-> <<"O objetivo da ">> \o nome \o <<" é oferecer produtos/serviços">>]

\* the mapping after the Drive link and the extra fields are filled in
FillFields(m, drive, drive_text, value) ==
    LET link == IF drive # <<>> /\ Head(drive) \notin {"http://", "https://"}
                THEN <<"https://">> \o drive ELSE drive
    IN  [k \in SchemaKeys |->
            CASE drive # <<>> /\ k \in {"LINK_DRIVE", "LINK_PARA_DOWNLOAD"} -> Str(link)
              [] drive # <<>> /\ k = "LINK_DRIVE_TEXT" ->
                     Str(IF drive_text # <<>> THEN drive_text ELSE <<"Link Drive">>)
              [] drive # <<>> /\ k = "LINK_PARA_DOWNLOAD_TEXT" -> Str(<<"Link para download">>)
              [] k \in {"DATA_BACKUP", "DATA_KICKOFF", "DATA_ENTREGA", "DOMINIO", "DEMANDA"} ->
                     Str(value)
              [] k = "DOMINIOWP" ->
                     Str(IF value # <<>> THEN value \o <<"/wp-admin/">> ELSE <<>>)
              [] k = "ESPECIALISTARESPONSAVEL" -> Str(<<"ITALO GOMES">>)
              [] k = "OBJETIVO_EMPRESA" -> Str(<<>>)
              [] OTHER -> m[k]]

\* the lines of source_parts
SourceParts(m) ==
    (IF Truthy(m["ATIVIDADE_PRINCIPAL"])
     THEN <<Str(<<"Atividade principal:", " ">> \o m["ATIVIDADE_PRINCIPAL"].v)>> ELSE <<>>)
    \o (IF Truthy(m["RESUMO_EMPRESA_CLIENTE"])
        THEN <<Str(<<"Resumo:", " ">> \o m["RESUMO_EMPRESA_CLIENTE"].v)>> ELSE <<>>)

\* "Atividade principal: " + value raises TypeError on a value that is no string
SourceRaises(m) ==
    \/ Truthy(m["ATIVIDADE_PRINCIPAL"]) /\ m["ATIVIDADE_PRINCIPAL"].t # "str"
    \/ Truthy(m["RESUMO_EMPRESA_CLIENTE"]) /\ m["RESUMO_EMPRESA_CLIENTE"].t # "str"

\* source_text: the joined lines, or str(data) when they are empty
SourceText(m) ==
    LET joined == Strip(JoinChars(<<"\n">>, SourceParts(m)))
    IN  IF joined # <<>> THEN joined ELSE <<"{", "...", "}">>

\* where run_cli goes on after normalize_cnpj
AfterNormalize_Always(status) == "consulta"

AfterNormalize(status) == IF status = "returned" THEN "consulta" ELSE "done"

\* the identifiers typed: well formed, a digit short, a digit long, no digit
CliCnpjs ==
    { [none |-> FALSE, text |-> t] :
        t \in {Interleaved(0, CnpjLength, 0, {2, 5}, "."),
               Interleaved(0, CnpjLength - 1, 0, {}, "."),
               Interleaved(0, CnpjLength + 1, 0, {}, "."),
               <<"a">>} }

\* what the server answers to one request of a run
CliResponses ==
    {NetworkFailure,
     [status |-> 200, body |-> "record"],
     [status |-> 200, body |-> "error"],
     [status |-> 503, body |-> "record"],
     [status |-> 404, body |-> "record"]}

\* the records the server returns in a run
CliRecords ==
    { RecordOf(act, Str(<<" ", "a", " ">>), first, None, None, Absent) :
        act \in Activities, first \in {None, Str(<<"b">>)} }

\* the Drive links typed
Drives == {<<>>, <<"d">>, <<"https://", "d">>}

\* the other answers typed
Answers == {<<>>, <<"t">>}

\* get_ai_provider(provider): the provider built, or the failure to build one
Providers == {"mock", "remote", "fails"}

NoLocals ==
    [cnpj_norm |-> <<>>, data |-> <<>>, mapping |-> <<>>, ai |-> "none", source_text |-> <<>>]

NotWritten == [written |-> FALSE, mapping |-> <<>>]

InitCli ==
    /\ args \in [template_exists : BOOLEAN, cnpj : CliCnpjs, use_ai : BOOLEAN]
    /\ cpc = "template"
    /\ locals = NoLocals
    /\ log = <<>>
    /\ output = NotWritten
    /\ IdlePara
    /\ IdleWalk
    /\ IdleCnpj
    /\ IdleLookup
    /\ IdleMap

\* the outer except clause: the message is printed and the run ends.  The log
\* holds the name of each call when it is made, "consulta_empresa returned"
\* and "generation finished" when those calls have returned, and the messages
\* printed.
Abort(events) ==
    /\ log' = log \o events \o <<"Erro durante execução">>
    /\ cpc' = "done"

\* if not Path(template).exists()
CheckTemplate ==
    /\ cpc = "template"
    /\ IF args.template_exists
       THEN cpc' = "normalize" /\ UNCHANGED log
       ELSE cpc' = "done" /\ log' = Append(log, "Template não encontrado")
    /\ UNCHANGED <<args, locals, output>>
    /\ UNCHANGED nonCliVars

\* cnpj_norm = normalize_cnpj(cnpj), with its except clause
NormalizeStep ==
    /\ cpc = "normalize"
    /\ LET r == normalize_cnpj(args.cnpj)
       IN  /\ cpc' = AfterNormalize(r.status)
           /\ log' = log \o <<"normalize_cnpj">>
                         \o (IF r.status = "returned" THEN <<>> ELSE <<"CNPJ inválido">>)
           /\ locals' = [locals EXCEPT !.cnpj_norm = r.value]
    /\ UNCHANGED <<args, output>>
    /\ UNCHANGED nonCliVars

\* data = consulta_empresa(cnpj_norm)
ConsultaStep ==
    /\ cpc = "consulta"
    /\ \E resps \in [1..MaxTries -> CliResponses], record \in CliRecords :
          LET r == consulta_empresa(resps)
          IN  IF r.status = "returned"
              THEN /\ locals' = [locals EXCEPT !.data = record]
                   /\ log' = log \o <<"consulta_empresa", "consulta_empresa returned">>
                   /\ cpc' = "mapping"
              ELSE /\ Abort(<<"consulta_empresa">>)
                   /\ UNCHANGED locals
    /\ UNCHANGED <<args, output>>
    /\ UNCHANGED nonCliVars

\* mapping = build_mapping(data), then the Drive link and the extra fields
MappingStep ==
    /\ cpc = "mapping"
    /\ LET r == build_mapping(locals.data)
       IN  IF r.status = "returned"
           THEN \E drive \in Drives, drive_text \in Answers, value \in Answers :
                   /\ locals' = [locals EXCEPT
                                    !.mapping = FillFields(r.mapping, drive, drive_text, value)]
                   /\ log' = Append(log, "build_mapping")
                   /\ cpc' = IF args.use_ai THEN "provider" ELSE "document"
           ELSE /\ Abort(<<"build_mapping">>)
                /\ UNCHANGED locals
    /\ UNCHANGED <<args, output>>
    /\ UNCHANGED nonCliVars

\* ai = get_ai_provider(provider), with its except clause, then source_text
ProviderStep ==
    /\ cpc = "provider"
    /\ \E provider \in Providers :
          LET events == <<"get_ai_provider">>
                        \o (IF provider = "fails"
                            THEN <<"Erro ao inicializar provedor IA">> ELSE <<>>)
          IN  IF SourceRaises(locals.mapping)
              THEN /\ Abort(events)
                   /\ locals' = [locals EXCEPT !.ai = IF provider = "fails" THEN "mock" ELSE provider]
              ELSE /\ locals' = [locals EXCEPT
                                   !.ai = IF provider = "fails" THEN "mock" ELSE provider,
                                   !.source_text = SourceText(locals.mapping)]
                   /\ log' = log \o events
                   /\ cpc' = "generate"
    /\ UNCHANGED <<args, output>>
    /\ UNCHANGED nonCliVars

\* what ai.generate_objective(source_text, mapping) can do
Generations(ai, source_text, m) ==
    IF ai = "mock"
    THEN {generate_objective(source_text, m)}
    ELSE {[status |-> "returned", text |-> <<"generated">>],
          [status |-> "Exception", text |-> <<>>]}

\* mapping["OBJETIVO_EMPRESA"] = ai.generate_objective(...), with its except
\* clause calling MockProvider().generate_objective(...)
GenerateStep ==
    /\ cpc = "generate"
    /\ \E r \in Generations(locals.ai, locals.source_text, locals.mapping) :
          LET fallback == generate_objective(locals.source_text, locals.mapping)
          IN  IF r.status = "returned"
              THEN /\ locals' = [locals EXCEPT !.mapping["OBJETIVO_EMPRESA"] = Str(r.text)]
                   /\ log' = log \o <<"generate_objective", "generation finished">>
                   /\ cpc' = "document"
              ELSE IF fallback.status = "returned"
              THEN /\ locals' = [locals EXCEPT !.mapping["OBJETIVO_EMPRESA"] = Str(fallback.text)]
                   /\ log' = log \o <<"generate_objective", "Erro ao gerar objetivo com IA",
                                      "MockProvider.generate_objective", "generation finished">>
                   /\ cpc' = "document"
              ELSE /\ Abort(<<"generate_objective", "Erro ao gerar objetivo com IA",
                              "MockProvider.generate_objective">>)
                   /\ UNCHANGED locals
    /\ UNCHANGED <<args, output>>
    /\ UNCHANGED nonCliVars

\* process_document(template, out_path, mapping): the document is saved, or
\* opening, filling or saving it raises
DocumentStep ==
    /\ cpc = "document"
    /\ \E saved \in BOOLEAN :
          IF saved
          THEN /\ output' = [written |-> TRUE, mapping |-> locals.mapping]
               /\ log' = log \o <<"process_document", "Documento gerado">>
               /\ cpc' = "done"
          ELSE /\ Abort(<<"process_document">>)
               /\ UNCHANGED output
    /\ UNCHANGED <<args, locals>>
    /\ UNCHANGED nonCliVars

NextCli ==
    \/ CheckTemplate
    \/ NormalizeStep
    \/ ConsultaStep
    \/ MappingStep
    \/ ProviderStep
    \/ GenerateStep
    \/ DocumentStep

\* every statement of run_cli returns or raises: the run goes on until it ends
SpecCli == InitCli /\ [][NextCli]_vars /\ WF_vars(NextCli)

Logged(event) == \E i \in 1..Len(log) : log[i] = event

\* event a is logged, and before every event b
Precedes(a, b) ==
    \E i \in 1..Len(log) :
        /\ log[i] = a
        /\ \A j \in 1..Len(log) : log[j] = b => i < j

LastLogged == log[Len(log)]

RunEnded == cpc = "done"

\* C14: process_document is called, and the output written, only after the
\* template was found, the identifier normalised, the lookup returned a record
\* and (with AI enabled) the generation finished; a run with a missing
\* template, an invalid identifier or a failed lookup ends with its message,
\* makes no lookup for an invalid identifier and writes no output; every run
\* ends.
C14_OutputOnlyAfterAll ==
    /\ [](/\ output.written => Logged("process_document")
          /\ Logged("process_document") =>
                /\ args.template_exists
                /\ normalize_cnpj(args.cnpj).status = "returned"
                /\ locals.cnpj_norm = normalize_cnpj(args.cnpj).value
                /\ Precedes("normalize_cnpj", "consulta_empresa")
                /\ Precedes("consulta_empresa returned", "process_document")
                /\ Precedes("build_mapping", "process_document")
                /\ args.use_ai => Precedes("generation finished", "process_document")
          /\ (RunEnded /\ ~args.template_exists) =>
                /\ log = <<"Template não encontrado">>
                /\ ~output.written
          /\ (RunEnded /\ args.template_exists
                /\ normalize_cnpj(args.cnpj).status # "returned") =>
                /\ LastLogged = "CNPJ inválido"
                /\ ~Logged("consulta_empresa")
                /\ ~output.written
          /\ (RunEnded /\ Logged("consulta_empresa")
                /\ ~Logged("consulta_empresa returned")) =>
                /\ LastLogged = "Erro durante execução"
                /\ ~Logged("build_mapping")
                /\ ~output.written)
    /\ <>RunEnded

\* a run with AI enabled whose remote generation failed and whose output was
\* written after the local heuristic
C14_Witness ==
    /\ RunEnded
    /\ output.written
    /\ args.use_ai
    /\ Logged("Erro ao gerar objetivo com IA")
    /\ log[Len(log) - 1] = "process_document"
    /\ output.mapping = locals.mapping

\* a run given an identifier of the wrong length: it ends without a lookup
C14_WitnessInvalid ==
    /\ RunEnded
    /\ args.template_exists
    /\ log = <<"normalize_cnpj", "CNPJ inválido">>

GenerationFailed ==
    Logged("Erro ao inicializar provedor IA") \/ Logged("Erro ao gerar objetivo com IA")

\* C12 as stated: a run with AI enabled in which the provider could not be
\* built or generate_objective raised goes on: OBJETIVO_EMPRESA is what
\* MockProvider gives for the same source text and mapping, and
\* process_document is called.
C12_FallbackNeverFatal ==
    (RunEnded /\ GenerationFailed) =>
        /\ Logged("process_document")
        /\ generate_objective(locals.source_text, locals.mapping).status = "returned"
        /\ locals.mapping["OBJETIVO_EMPRESA"] =
               Str(generate_objective(locals.source_text, locals.mapping).text)

\* what does hold: the fallback never ends the run when ATIVIDADE_PRINCIPAL
\* is a string
C12_FallbackGivenStrings ==
    (RunEnded /\ GenerationFailed /\ locals.mapping["ATIVIDADE_PRINCIPAL"].t = "str") =>
        /\ Logged("process_document")
        /\ locals.mapping["OBJETIVO_EMPRESA"] =
               Str(generate_objective(locals.source_text, locals.mapping).text)

====
